---- MODULE Spec2Model ----
(***************************************************************************)
(* Model of the orgzr-mealz plug (crates/orgzr-mealz/src/lib.rs): the      *)
(* in-memory card store of MealzPlug and the plan generation pipeline      *)
(* generate_plan -> find_candidates -> build_idea_plan ->                  *)
(* build_raw_schedule.                                                     *)
(*                                                                         *)
(* Conventions.  Option<T> is a sequence of length at most one (<<>> is    *)
(* None, <<x>> is Some(x)).  A String that the code inspects (a card name, *)
(* name_contains) is a sequence of one-character strings; a message built  *)
(* by format! is a record of its format string and its arguments.  A       *)
(* HashSet<String> is a set of strings.                                    *)
(***************************************************************************)
EXTENDS Integers, Sequences, FiniteSets, TLC

\* ---------------------------------------------------------------------
\* Bounds of the model
\* ---------------------------------------------------------------------

\* add_card is called at most MaxCards times in a behaviour.
MaxCards == 2
\* max_batch_size arguments range over 0..MaxBatch.
MaxBatch == 2
\* number_of_meals ranges over 0..MaxMeals.
MaxMeals == 3
\* max_repeats_per_plan ranges over 0..MaxRepeats.
MaxRepeats == 1

\* ---------------------------------------------------------------------
\* Strings
\* ---------------------------------------------------------------------

Tacos == <<"T", "a", "c", "o", "s">>
Soup == <<"s", "o", "u", "p">>

\* char::to_lowercase over the letters the model uses.
LowerChar(ch) ==
    CASE ch = "T" -> "t"
      [] ch = "S" -> "s"
      [] ch = "A" -> "a"
      [] OTHER -> ch

\* str::to_lowercase
to_lowercase(s) == [i \in 1..Len(s) |-> LowerChar(s[i])]

\* str::contains: needle occurs in hay as a contiguous substring.
contains(hay, needle) ==
    \E i \in 0..(Len(hay) - Len(needle)) :
        SubSeq(hay, i + 1, i + Len(needle)) = needle

\* Option::unwrap_or
unwrap_or(opt, default) == IF opt = <<>> THEN default ELSE opt[1]

\* The Option values over a set.
Option(S) == {<<>>} \cup {<<x>> : x \in S}

\* format!("Card {} not found", card_id)
NotFoundMsg(card_id) == [text |-> "Card {} not found", arg |-> <<card_id>>]
\* "No cards match the specified filters."
NoCandidatesMsg == [text |-> "No cards match the specified filters.", arg |-> <<>>]
\* format!("Ran out of meal portions. Plan stopped at {} meals.", schedule.len())
RanOutMsg(n) ==
    [text |-> "Ran out of meal portions. Plan stopped at {} meals.", arg |-> <<n>>]
CouldNotSatisfyMsg ==
    [text |-> "Could not satisfy all constraints (e.g., repetition). The remaining plan may have duplicates.",
     arg |-> <<>>]
RemovedNoteMsg ==
    [text |-> "Note: Jokers and duplicates have been removed from the final idea list.",
     arg |-> <<>>]

\* ---------------------------------------------------------------------
\* State
\* ---------------------------------------------------------------------

VARIABLES
    cards,        \* MealzPlug.cards: Vec<Card>
    next_id,      \* MealzPlug.next_id
    issued,       \* history: the identifiers add_card has returned so far
    op,           \* the method called last, with its arguments where a property
                  \* needs them: <<name>>, <<name, card_id>> or, for update_card,
                  \* <<name, card_id, new_name, new_tags, new_ingredients,
                  \*   new_max_batch_size>>
    ret,          \* what that call returned (Pending while generate_plan runs)
    pc,           \* position of generate_plan: "idle" (not called), "loop",
                  \* "finalize", "return", "done" (it has returned)
    constraints,  \* the PlanConstraints of the running generate_plan call
    candidates,   \* find_candidates' result handed to build_raw_schedule
    inventory,    \* build_raw_schedule: inventory
    schedule,     \* build_raw_schedule: schedule
    warnings,     \* build_raw_schedule / build_idea_plan: warnings
    plan_counts,  \* build_raw_schedule: plan_counts (absent key = not in DOMAIN)
    final_ideas   \* build_idea_plan: final_ideas

storeVars == <<cards, next_id, issued>>
genVars == <<pc, constraints, candidates, inventory, schedule,
             warnings, plan_counts, final_ideas>>
vars == <<cards, next_id, issued, op, ret, pc, constraints, candidates,
          inventory, schedule, warnings, plan_counts, final_ideas>>

\* struct Card
Card(id, name, tags, ingredients, max_batch_size) ==
    [id |-> id, name |-> name, tags |-> tags, ingredients |-> ingredients,
     max_batch_size |-> max_batch_size]

\* Result<Card, String> / Result<GenerationResult, String> as one record shape.
OkCard(c) == [ok |-> TRUE, card |-> <<c>>, plan |-> <<>>, warnings |-> <<>>, err |-> <<>>]
OkPlan(ideas, w) ==
    [ok |-> TRUE, card |-> <<>>, plan |-> <<ideas>>, warnings |-> w, err |-> <<>>]
Err(msg) == [ok |-> FALSE, card |-> <<>>, plan |-> <<>>, warnings |-> <<>>, err |-> <<msg>>]
\* No call has returned yet.
Pending == [ok |-> FALSE, card |-> <<>>, plan |-> <<>>, warnings |-> <<>>, err |-> <<>>]

\* Default values of PlanConstraints / CardFilters (#[derive(Default)]).
DefaultFilters ==
    [name_contains |-> <<>>, tag_filters |-> {}, tag_mode |-> "Any",
     ingredient_filters |-> {}, ingredient_mode |-> "Any",
     allow_jokers |-> FALSE, batch_mode |-> "Allow"]
DefaultConstraints ==
    [number_of_meals |-> 0, filters |-> DefaultFilters,
     no_consecutive |-> FALSE, max_repeats_per_plan |-> 0]

\* MealzPlug::new(); the locals of generate_plan do not exist yet.
Init ==
    /\ cards = <<>>
    /\ next_id = 1
    /\ issued = {}
    /\ op = <<"new">>
    /\ ret = Pending
    /\ pc = "idle"
    /\ constraints = DefaultConstraints
    /\ candidates = <<>>
    /\ inventory = <<>>
    /\ schedule = <<>>
    /\ warnings = <<>>
    /\ plan_counts = <<>>
    /\ final_ideas = <<>>

\* ---------------------------------------------------------------------
\* Card store (CRUD methods)
\* ---------------------------------------------------------------------

\* Iterator::position: index of the first card with this id, 0 for None.
position(cs, card_id) ==
    IF \E i \in 1..Len(cs) : cs[i].id = card_id
    THEN CHOOSE i \in 1..Len(cs) :
            /\ cs[i].id = card_id
            /\ \A j \in 1..(i - 1) : cs[j].id # card_id
    ELSE 0

\* Vec::remove(index)
RemoveAt(s, i) == SubSeq(s, 1, i - 1) \o SubSeq(s, i + 1, Len(s))

\* A mutant of add_card: the identifier is derived from the list length.
add_card_len_id(name, tags, ingredients, max_batch_size) ==
    /\ pc = "idle"
    /\ next_id <= MaxCards
    /\ LET new_card == Card(Len(cards) + 1, name, tags, ingredients,
                            unwrap_or(max_batch_size, 1))
       IN /\ cards' = Append(cards, new_card)
          /\ next_id' = next_id + 1
          /\ issued' = issued \cup {new_card.id}
          /\ op' = <<"add_card">>
          /\ ret' = OkCard(new_card)
    /\ UNCHANGED genVars

add_card(name, tags, ingredients, max_batch_size) ==
    /\ pc = "idle"
    /\ next_id <= MaxCards
    /\ LET new_card == Card(next_id, name, tags, ingredients,
                            unwrap_or(max_batch_size, 1))
       IN /\ cards' = Append(cards, new_card)
          /\ next_id' = next_id + 1
          /\ issued' = issued \cup {new_card.id}
          /\ op' = <<"add_card">>
          /\ ret' = OkCard(new_card)
    /\ UNCHANGED genVars

\* A mutant of updated: an omitted tag set empties the card's tags.
updated_tags_reset(card, new_name, new_tags, new_ingredients, new_max_batch_size) ==
    [id |-> card.id,
     name |-> unwrap_or(new_name, card.name),
     tags |-> unwrap_or(new_tags, {}),
     ingredients |-> unwrap_or(new_ingredients, card.ingredients),
     max_batch_size |-> unwrap_or(new_max_batch_size, card.max_batch_size)]

\* The card after update_card's four "if let Some(..)" assignments.
updated(card, new_name, new_tags, new_ingredients, new_max_batch_size) ==
    [id |-> card.id,
     name |-> unwrap_or(new_name, card.name),
     tags |-> unwrap_or(new_tags, card.tags),
     ingredients |-> unwrap_or(new_ingredients, card.ingredients),
     max_batch_size |-> unwrap_or(new_max_batch_size, card.max_batch_size)]

\* A mutant of update_card: an unknown identifier creates the card (upsert).
update_card_upsert(card_id, new_name, new_tags, new_ingredients, new_max_batch_size) ==
    /\ pc = "idle"
    /\ op' = <<"update_card", card_id, new_name, new_tags, new_ingredients,
               new_max_batch_size>>
    /\ LET index == position(cards, card_id)
       IN IF index = 0
          THEN /\ ret' = Err(NotFoundMsg(card_id))
               /\ cards' = Append(cards, Card(card_id, unwrap_or(new_name, <<>>),
                                              unwrap_or(new_tags, {}),
                                              unwrap_or(new_ingredients, {}),
                                              unwrap_or(new_max_batch_size, 1)))
          ELSE LET card == updated(cards[index], new_name, new_tags,
                                   new_ingredients, new_max_batch_size)
               IN /\ cards' = [cards EXCEPT ![index] = card]
                  /\ ret' = OkCard(card)
    /\ UNCHANGED <<next_id, issued>>
    /\ UNCHANGED genVars

update_card(card_id, new_name, new_tags, new_ingredients, new_max_batch_size) ==
    /\ pc = "idle"
    /\ op' = <<"update_card", card_id, new_name, new_tags, new_ingredients,
               new_max_batch_size>>
    /\ LET index == position(cards, card_id)
       IN IF index = 0
          THEN /\ ret' = Err(NotFoundMsg(card_id))
               /\ UNCHANGED cards
          ELSE LET card == updated(cards[index], new_name, new_tags,
                                   new_ingredients, new_max_batch_size)
               IN /\ cards' = [cards EXCEPT ![index] = card]
                  /\ ret' = OkCard(card)
    /\ UNCHANGED <<next_id, issued>>
    /\ UNCHANGED genVars

get_card(card_id) ==
    /\ pc = "idle"
    /\ op' = <<"get_card", card_id>>
    /\ LET index == position(cards, card_id)
       IN ret' = IF index = 0 THEN Err(NotFoundMsg(card_id)) ELSE OkCard(cards[index])
    /\ UNCHANGED storeVars
    /\ UNCHANGED genVars

remove_card(card_id) ==
    /\ pc = "idle"
    /\ op' = <<"remove_card", card_id>>
    /\ LET index == position(cards, card_id)
       IN IF index = 0
          THEN /\ ret' = Err(NotFoundMsg(card_id))
               /\ UNCHANGED cards
          ELSE /\ ret' = OkCard(cards[index])
               /\ cards' = RemoveAt(cards, index)
    /\ UNCHANGED <<next_id, issued>>
    /\ UNCHANGED genVars

\* Arguments the store methods are called with.
Names == {Tacos, Soup}
CardIds == 1..(MaxCards + 1)
\* max_batch_size arguments: omitted, zero, the largest.
BatchArgs == {<<>>, <<0>>, <<MaxBatch>>}
\* <<new_name, new_tags, new_ingredients, new_max_batch_size>> of update_card.
UpdateArgs ==
    { <<<<>>, <<>>, <<>>, <<>>>>,
      <<<<Soup>>, <<>>, <<>>, <<>>>>,
      <<<<>>, <<{"joker"}>>, <<{"rice"}>>, <<>>>>,
      <<<<>>, <<>>, <<>>, <<0>>>>,
      <<<<Tacos>>, <<{}>>, <<{}>>, <<MaxBatch>>>> }

AddCard ==
    \E name \in Names, max_batch_size \in BatchArgs :
        add_card(name, {}, {}, max_batch_size)

UpdateCard ==
    \E card_id \in CardIds, a \in UpdateArgs :
        update_card(card_id, a[1], a[2], a[3], a[4])

GetCard == \E card_id \in CardIds : get_card(card_id)

RemoveCard == \E card_id \in CardIds : remove_card(card_id)

StoreNext == AddCard \/ UpdateCard \/ GetCard \/ RemoveCard

\* The card store under arbitrary sequences of CRUD calls.
SpecStore == Init /\ [][StoreNext]_vars

\* ---------------------------------------------------------------------
\* Meal plan generation
\* ---------------------------------------------------------------------

\* A mutant of card_matches: ANY mode asks for every filter tag, as ALL does.
card_matches_any_all(card, filters) ==
    LET name_match ==
            \/ filters.name_contains = <<>>
            \/ contains(to_lowercase(card.name), to_lowercase(filters.name_contains))
        batchable_match ==
            CASE filters.batch_mode = "Allow" -> TRUE
              [] filters.batch_mode = "Only" -> card.max_batch_size > 1
              [] filters.batch_mode = "Prevent" -> card.max_batch_size <= 1
        tags_match ==
            \/ filters.tag_filters = {}
            \/ filters.tag_filters \subseteq card.tags
        ingredients_match ==
            \/ filters.ingredient_filters = {}
            \/ IF filters.ingredient_mode = "All"
               THEN filters.ingredient_filters \subseteq card.ingredients
               ELSE filters.ingredient_filters \cap card.ingredients # {}
        joker_match == filters.allow_jokers \/ "joker" \notin card.tags
    IN name_match /\ batchable_match /\ tags_match /\ ingredients_match /\ joker_match

\* A mutant of card_matches: Allow is read as Prevent's complement of Only,
\* so a card with max_batch_size 0 is not admitted.
card_matches_allow_positive(card, filters) ==
    LET name_match ==
            \/ filters.name_contains = <<>>
            \/ contains(to_lowercase(card.name), to_lowercase(filters.name_contains))
        batchable_match ==
            CASE filters.batch_mode = "Allow" -> card.max_batch_size >= 1
              [] filters.batch_mode = "Only" -> card.max_batch_size > 1
              [] filters.batch_mode = "Prevent" -> card.max_batch_size <= 1
        tags_match ==
            \/ filters.tag_filters = {}
            \/ IF filters.tag_mode = "All"
               THEN filters.tag_filters \subseteq card.tags
               ELSE filters.tag_filters \cap card.tags # {}
        ingredients_match ==
            \/ filters.ingredient_filters = {}
            \/ IF filters.ingredient_mode = "All"
               THEN filters.ingredient_filters \subseteq card.ingredients
               ELSE filters.ingredient_filters \cap card.ingredients # {}
        joker_match == filters.allow_jokers \/ "joker" \notin card.tags
    IN name_match /\ batchable_match /\ tags_match /\ ingredients_match /\ joker_match

\* The closure of find_candidates: the five predicates of one card.
card_matches(card, filters) ==
    LET name_match ==
            \/ filters.name_contains = <<>>
            \/ contains(to_lowercase(card.name), to_lowercase(filters.name_contains))
        batchable_match ==
            CASE filters.batch_mode = "Allow" -> TRUE
              [] filters.batch_mode = "Only" -> card.max_batch_size > 1
              [] filters.batch_mode = "Prevent" -> card.max_batch_size <= 1
        tags_match ==
            \/ filters.tag_filters = {}
            \/ IF filters.tag_mode = "All"
               THEN filters.tag_filters \subseteq card.tags
               ELSE filters.tag_filters \cap card.tags # {}
        ingredients_match ==
            \/ filters.ingredient_filters = {}
            \/ IF filters.ingredient_mode = "All"
               THEN filters.ingredient_filters \subseteq card.ingredients
               ELSE filters.ingredient_filters \cap card.ingredients # {}
        joker_match == filters.allow_jokers \/ "joker" \notin card.tags
    IN name_match /\ batchable_match /\ tags_match /\ ingredients_match /\ joker_match

find_candidates(cs, filters) == SelectSeq(cs, LAMBDA card : card_matches(card, filters))

\* vec![card; n]
Repeat(card, n) == [i \in 1..n |-> card]

\* A mutant of expand: one copy too many of every card.
RECURSIVE expand_extra(_)
expand_extra(cands) ==
    IF cands = <<>> THEN <<>>
    ELSE Repeat(Head(cands), Head(cands).max_batch_size + 1) \o expand_extra(Tail(cands))

\* candidates.into_iter().flat_map(|card| vec![card.clone(); max_batch_size]).collect()
RECURSIVE expand(_)
expand(cands) ==
    IF cands = <<>> THEN <<>>
    ELSE Repeat(Head(cands), Head(cands).max_batch_size) \o expand(Tail(cands))

Range(s) == {s[i] : i \in 1..Len(s)}
Count(s, x) == Cardinality({i \in 1..Len(s) : s[i] = x})

\* All orderings of the multiset that gives each element e of DOMAIN cnt
\* cnt[e] copies.
RECURSIVE Arrangements(_)
Arrangements(cnt) ==
    LET left == {e \in DOMAIN cnt : cnt[e] > 0}
    IN IF left = {} THEN {<<>>}
       ELSE UNION { { <<e>> \o rest :
                        rest \in Arrangements([cnt EXCEPT ![e] = cnt[e] - 1]) } :
                    e \in left }

\* A mutant of shuffle: the permutation loses the first entry.
shuffle_drop(inv) ==
    Arrangements([e \in Range(inv) |->
                     IF e = inv[1] THEN Count(inv, e) - 1 ELSE Count(inv, e)])

\* inventory.shuffle(&mut rng): any permutation of the inventory.
shuffle(inv) == Arrangements([e \in Range(inv) |-> Count(inv, e)])

\* plan_counts.get(&id).unwrap_or(&0)
get_count(counts, id) == IF id \in DOMAIN counts THEN counts[id] ELSE 0

\* A mutant of bump_count: or_insert(1) with no increment of an existing entry.
bump_count_insert(counts, id) ==
    [k \in DOMAIN counts \cup {id} |->
        IF k \in DOMAIN counts THEN counts[k] ELSE 1]

\* *plan_counts.entry(id).or_insert(0) += 1
\* (a u8: it is at most number_of_meals <= 255, so the addition cannot overflow)
bump_count(counts, id) ==
    [k \in DOMAIN counts \cup {id} |->
        IF k = id THEN get_count(counts, id) + 1 ELSE counts[k]]

\* A mutant of consecutive: compares with the first entry of the schedule.
consecutive_first(c, sched, card) ==
    c.no_consecutive /\ sched # <<>> /\ sched[1].id = card.id

consecutive(c, sched, card) ==
    c.no_consecutive /\ sched # <<>> /\ sched[Len(sched)].id = card.id

\* A mutant of over_limit: > for >=.
over_limit_gt(c, counts, card) ==
    c.max_repeats_per_plan > 0 /\ get_count(counts, card.id) > c.max_repeats_per_plan

over_limit(c, counts, card) ==
    c.max_repeats_per_plan > 0 /\ get_count(counts, card.id) >= c.max_repeats_per_plan

\* The closure of the position() call: the entry violates no constraint.
admissible(c, sched, counts, card) ==
    ~consecutive(c, sched, card) /\ ~over_limit(c, counts, card)

\* A mutant of choice_index: the last admissible entry instead of the first.
choice_index_last(c, inv, sched, counts) ==
    IF \E i \in 1..Len(inv) : admissible(c, sched, counts, inv[i])
    THEN CHOOSE i \in 1..Len(inv) :
            /\ admissible(c, sched, counts, inv[i])
            /\ \A j \in (i + 1)..Len(inv) : ~admissible(c, sched, counts, inv[j])
    ELSE 0

\* inventory.iter().position(..): index of the first admissible entry, 0 for None.
choice_index(c, inv, sched, counts) ==
    IF \E i \in 1..Len(inv) : admissible(c, sched, counts, inv[i])
    THEN CHOOSE i \in 1..Len(inv) :
            /\ admissible(c, sched, counts, inv[i])
            /\ \A j \in 1..(i - 1) : ~admissible(c, sched, counts, inv[j])
    ELSE 0

\* A mutant of generate_plan: the emptiness check looks at the portions, not the cards.
generate_plan_portions(c) ==
    /\ pc = "idle"
    /\ op' = <<"generate_plan">>
    /\ constraints' = c
    /\ UNCHANGED storeVars
    /\ LET found == find_candidates(cards, c.filters)
       IN IF expand(found) = <<>>
          THEN /\ ret' = Err(NoCandidatesMsg)
               /\ pc' = "done"
               /\ UNCHANGED <<candidates, inventory, schedule, warnings,
                              plan_counts, final_ideas>>
          ELSE /\ ret' = Pending
               /\ pc' = "loop"
               /\ candidates' = found
               /\ inventory' \in shuffle(expand(found))
               /\ schedule' = <<>>
               /\ warnings' = <<>>
               /\ plan_counts' = <<>>
               /\ final_ideas' = <<>>

\* generate_plan up to the while loop of build_raw_schedule: the candidate
\* check, then the locals of build_raw_schedule and the shuffled inventory.
\* The call borrows the store immutably and leaves it as it was, so a
\* behaviour follows one call from the store it finds to its return.
generate_plan(c) ==
    /\ pc = "idle"
    /\ op' = <<"generate_plan">>
    /\ constraints' = c
    /\ UNCHANGED storeVars
    /\ LET found == find_candidates(cards, c.filters)
       IN IF found = <<>>
          THEN /\ ret' = Err(NoCandidatesMsg)
               /\ pc' = "done"
               /\ UNCHANGED <<candidates, inventory, schedule, warnings,
                              plan_counts, final_ideas>>
          ELSE /\ ret' = Pending
               /\ pc' = "loop"
               /\ candidates' = found
               /\ inventory' \in shuffle(expand(found))
               /\ schedule' = <<>>
               /\ warnings' = <<>>
               /\ plan_counts' = <<>>
               /\ final_ideas' = <<>>

\* while schedule.len() < number_of_meals: the condition fails, the loop ends.
schedule_full ==
    /\ pc = "loop"
    /\ ~(Len(schedule) < constraints.number_of_meals)
    /\ pc' = "finalize"
    /\ UNCHANGED <<cards, next_id, issued, op, ret, constraints, candidates,
                   inventory, schedule, warnings, plan_counts, final_ideas>>

\* A mutant of ran_out: the loop breaks without the warning.
ran_out_silent ==
    /\ pc = "loop"
    /\ Len(schedule) < constraints.number_of_meals
    /\ inventory = <<>>
    /\ warnings' = warnings
    /\ pc' = "finalize"
    /\ UNCHANGED <<cards, next_id, issued, op, ret, constraints, candidates,
                   inventory, schedule, plan_counts, final_ideas>>

\* if inventory.is_empty() { warnings.push(..); break; }
ran_out ==
    /\ pc = "loop"
    /\ Len(schedule) < constraints.number_of_meals
    /\ inventory = <<>>
    /\ warnings' = Append(warnings, RanOutMsg(Len(schedule)))
    /\ pc' = "finalize"
    /\ UNCHANGED <<cards, next_id, issued, op, ret, constraints, candidates,
                   inventory, schedule, plan_counts, final_ideas>>

\* if let Some(index) = choice_index { .. }
choose ==
    /\ pc = "loop"
    /\ Len(schedule) < constraints.number_of_meals
    /\ inventory # <<>>
    /\ LET index == choice_index(constraints, inventory, schedule, plan_counts)
       IN /\ index # 0
          /\ LET chosen_card == inventory[index]
             IN /\ inventory' = RemoveAt(inventory, index)
                /\ plan_counts' = bump_count(plan_counts, chosen_card.id)
                /\ schedule' = Append(schedule, chosen_card)
    /\ UNCHANGED <<cards, next_id, issued, op, ret, pc, constraints, candidates,
                   warnings, final_ideas>>

\* A mutant of fallback: the entry at position 0 is removed but not scheduled.
fallback_drop ==
    /\ pc = "loop"
    /\ Len(schedule) < constraints.number_of_meals
    /\ inventory # <<>>
    /\ choice_index(constraints, inventory, schedule, plan_counts) = 0
    /\ warnings' = Append(warnings, CouldNotSatisfyMsg)
    /\ LET chosen_card == inventory[1]
       IN /\ inventory' = RemoveAt(inventory, 1)
          /\ plan_counts' = bump_count(plan_counts, chosen_card.id)
          /\ schedule' = schedule
    /\ UNCHANGED <<cards, next_id, issued, op, ret, pc, constraints, candidates,
                   final_ideas>>

\* A mutant of fallback: the entry at position 0 is cloned, not removed.
fallback_keep ==
    /\ pc = "loop"
    /\ Len(schedule) < constraints.number_of_meals
    /\ inventory # <<>>
    /\ choice_index(constraints, inventory, schedule, plan_counts) = 0
    /\ warnings' = Append(warnings, CouldNotSatisfyMsg)
    /\ LET chosen_card == inventory[1]
       IN /\ inventory' = inventory
          /\ plan_counts' = bump_count(plan_counts, chosen_card.id)
          /\ schedule' = Append(schedule, chosen_card)
    /\ UNCHANGED <<cards, next_id, issued, op, ret, pc, constraints, candidates,
                   final_ideas>>

\* else { warnings.push(..); let chosen_card = inventory.remove(0); .. }
fallback ==
    /\ pc = "loop"
    /\ Len(schedule) < constraints.number_of_meals
    /\ inventory # <<>>
    /\ choice_index(constraints, inventory, schedule, plan_counts) = 0
    /\ warnings' = Append(warnings, CouldNotSatisfyMsg)
    /\ LET chosen_card == inventory[1]
       IN /\ inventory' = RemoveAt(inventory, 1)
          /\ plan_counts' = bump_count(plan_counts, chosen_card.id)
          /\ schedule' = Append(schedule, chosen_card)
    /\ UNCHANGED <<cards, next_id, issued, op, ret, pc, constraints, candidates,
                   final_ideas>>

\* A mutant of keep_ideas: duplicates are dropped, jokers are kept.
RECURSIVE keep_ideas_jokers(_, _)
keep_ideas_jokers(sched, seen_ids) ==
    IF sched = <<>> THEN <<>>
    ELSE LET card == Head(sched)
         IN IF card.id \notin seen_ids
            THEN <<card>> \o keep_ideas_jokers(Tail(sched), seen_ids \cup {card.id})
            ELSE keep_ideas_jokers(Tail(sched), seen_ids)

\* A mutant of keep_ideas: a kept card is put in front of the list.
RECURSIVE keep_ideas_front(_, _)
keep_ideas_front(sched, seen_ids) ==
    IF sched = <<>> THEN <<>>
    ELSE LET card == Head(sched)
         IN IF "joker" \notin card.tags /\ card.id \notin seen_ids
            THEN keep_ideas_front(Tail(sched), seen_ids \cup {card.id}) \o <<card>>
            ELSE keep_ideas_front(Tail(sched), seen_ids)

\* The for loop of build_idea_plan; seen_ids.insert runs only for a non-joker
\* (&& short-circuits) and is true when the id was not yet in the set.
RECURSIVE keep_ideas(_, _)
keep_ideas(sched, seen_ids) ==
    IF sched = <<>> THEN <<>>
    ELSE LET card == Head(sched)
         IN IF "joker" \notin card.tags /\ card.id \notin seen_ids
            THEN <<card>> \o keep_ideas(Tail(sched), seen_ids \cup {card.id})
            ELSE keep_ideas(Tail(sched), seen_ids)

\* A mutant of build_idea_plan: the note is never appended.
build_idea_plan_no_note ==
    /\ pc = "finalize"
    /\ final_ideas' = keep_ideas(schedule, {})
    /\ warnings' = warnings
    /\ pc' = "return"
    /\ UNCHANGED <<cards, next_id, issued, op, ret, constraints, candidates,
                   inventory, schedule, plan_counts>>

\* A mutant of build_idea_plan: the note is put in front of the warnings.
build_idea_plan_note_first ==
    /\ pc = "finalize"
    /\ LET ideas == keep_ideas(schedule, {})
       IN /\ final_ideas' = ideas
          /\ warnings' = IF Len(ideas) < Len(schedule)
                         THEN <<RemovedNoteMsg>> \o warnings
                         ELSE warnings
    /\ pc' = "return"
    /\ UNCHANGED <<cards, next_id, issued, op, ret, constraints, candidates,
                   inventory, schedule, plan_counts>>

\* build_idea_plan after build_raw_schedule has returned: the idea list and
\* the note.
build_idea_plan ==
    /\ pc = "finalize"
    /\ LET ideas == keep_ideas(schedule, {})
       IN /\ final_ideas' = ideas
          /\ warnings' = IF Len(ideas) < Len(schedule)
                         THEN Append(warnings, RemovedNoteMsg)
                         ELSE warnings
    /\ pc' = "return"
    /\ UNCHANGED <<cards, next_id, issued, op, ret, constraints, candidates,
                   inventory, schedule, plan_counts>>

\* Ok(GenerationResult { plan, warnings }); the locals are dropped.
return_plan ==
    /\ pc = "return"
    /\ ret' = OkPlan(final_ideas, warnings)
    /\ pc' = "done"
    /\ candidates' = <<>>
    /\ inventory' = <<>>
    /\ schedule' = <<>>
    /\ warnings' = <<>>
    /\ plan_counts' = <<>>
    /\ final_ideas' = <<>>
    /\ UNCHANGED <<cards, next_id, issued, op, constraints>>

\* Cards the plan specification stores: <<name, tags, ingredients, max_batch_size>>.
PlanAddArgs ==
    { <<Tacos, {}, {}, <<2>>>>,
      <<Soup, {"joker"}, {}, <<>>>>,
      <<Soup, {}, {"rice"}, <<MaxBatch>>>>,
      <<Tacos, {"vegan"}, {"rice"}, <<0>>>> }

\* Filter specifications generate_plan is called with.
PlanFilters ==
    { DefaultFilters,
      [DefaultFilters EXCEPT !.allow_jokers = TRUE],
      [DefaultFilters EXCEPT !.tag_filters = {"vegan"}, !.tag_mode = "All"],
      [DefaultFilters EXCEPT !.name_contains = <<"S", "o">>, !.allow_jokers = TRUE,
                             !.ingredient_filters = {"rice", "salt"},
                             !.batch_mode = "Prevent"] }

PlanConstraints ==
    [number_of_meals : 0..MaxMeals, filters : PlanFilters,
     no_consecutive : BOOLEAN, max_repeats_per_plan : 0..MaxRepeats]

PlanAddCard == \E a \in PlanAddArgs : add_card(a[1], a[2], a[3], a[4])

GeneratePlan == \E c \in PlanConstraints : generate_plan(c)

PlanNext ==
    \/ PlanAddCard
    \/ GeneratePlan
    \/ schedule_full
    \/ ran_out
    \/ choose
    \/ fallback
    \/ build_idea_plan
    \/ return_plan

\* Plan generation over the stores that add_card builds.
SpecPlan == Init /\ [][PlanNext]_vars

\* One evaluation of the while condition and, if it holds, of the loop body.
LoopStep == schedule_full \/ ran_out \/ choose \/ fallback

\* generate_plan called with the filter that admits every stored card: the
\* loop then runs on the inventory of the whole store.
GeneratePlanAll ==
    \E c \in PlanConstraints :
        /\ c.filters = [DefaultFilters EXCEPT !.allow_jokers = TRUE]
        /\ generate_plan(c)

\* Cards of the stores the loop is followed on: a batch card and one without
\* portions.
LoopAddArgs ==
    { <<Soup, {}, {"rice"}, <<MaxBatch>>>>,
      <<Tacos, {"vegan"}, {"rice"}, <<0>>>> }

LoopAddCard == \E a \in LoopAddArgs : add_card(a[1], a[2], a[3], a[4])

LoopNext ==
    \/ LoopAddCard
    \/ GeneratePlanAll
    \/ schedule_full
    \/ ran_out
    \/ choose
    \/ fallback
    \/ build_idea_plan
    \/ return_plan

\* Plan generation where a call that is inside the loop keeps running: the
\* code is sequential and nothing in the loop waits or blocks.
SpecLoopFair == Init /\ [][LoopNext]_vars /\ WF_vars(LoopStep)

\* ---------------------------------------------------------------------
\* The candidate filter on its own
\* ---------------------------------------------------------------------

\* let candidates = self.find_candidates(&constraints.filters): the first
\* statement of generate_plan, followed to the point where candidates is bound.
find_candidates_call(filters) ==
    /\ pc = "idle"
    /\ op' = <<"find_candidates">>
    /\ ret' = Pending
    /\ constraints' = [constraints EXCEPT !.filters = filters]
    /\ candidates' = find_candidates(cards, filters)
    /\ pc' = "candidates"
    /\ UNCHANGED <<cards, next_id, issued, inventory, schedule, warnings,
                   plan_counts, final_ideas>>

\* The store after add_card was called with each <<name, tags, ingredients,
\* max_batch_size>> of args in turn.
StoreOf(args) ==
    [i \in 1..Len(args) |-> Card(i, args[i][1], args[i][2], args[i][3], args[i][4])]

\* Every card content over two names, two tags, two ingredients.
AllCardArgs ==
    Names \X (SUBSET {"joker", "vegan"}) \X (SUBSET {"rice", "salt"}) \X (0..MaxBatch)

\* Card contents of the stores that hold several cards.
FewCardArgs ==
    { <<Tacos, {}, {"rice"}, 2>>,
      <<Soup, {"joker"}, {}, 1>>,
      <<Soup, {"vegan", "joker"}, {"rice", "salt"}, 0>>,
      <<Tacos, {"vegan"}, {"salt"}, MaxBatch>> }

FilterStores ==
    {StoreOf(<<a>>) : a \in AllCardArgs}
        \cup UNION { {StoreOf(s) : s \in [1..n -> FewCardArgs]} : n \in 0..MaxCards }

\* Every CardFilters value over three name substrings and the tags and
\* ingredients above.
AllFilters ==
    [name_contains : {<<>>, <<"T", "A">>, <<"u", "p">>},
     tag_filters : SUBSET {"joker", "vegan"},
     tag_mode : {"All", "Any"},
     ingredient_filters : SUBSET {"rice", "salt"},
     ingredient_mode : {"All", "Any"},
     allow_jokers : BOOLEAN,
     batch_mode : {"Allow", "Only", "Prevent"}]

\* A store that add_card calls have filled, before generate_plan is called.
InitFilter ==
    /\ cards \in FilterStores
    /\ next_id = Len(cards) + 1
    /\ issued = 1..Len(cards)
    /\ op = IF cards = <<>> THEN <<"new">> ELSE <<"add_card">>
    /\ ret = IF cards = <<>> THEN Pending ELSE OkCard(cards[Len(cards)])
    /\ pc = "idle"
    /\ constraints = DefaultConstraints
    /\ candidates = <<>>
    /\ inventory = <<>>
    /\ schedule = <<>>
    /\ warnings = <<>>
    /\ plan_counts = <<>>
    /\ final_ideas = <<>>

FindCandidates == \E filters \in AllFilters : find_candidates_call(filters)

FilterNext == FindCandidates

\* find_candidates applied to every store and filter specification.
SpecFilter == InitFilter /\ [][FilterNext]_vars

\* ---------------------------------------------------------------------
\* Properties
\* ---------------------------------------------------------------------

Ids(cs) == {cs[i].id : i \in 1..Len(cs)}
IdCount(s, id) == Cardinality({i \in 1..Len(s) : s[i].id = id})
Min(a, b) == IF a < b THEN a ELSE b
Matching == {i \in 1..Len(cards) : card_matches(cards[i], constraints.filters)}
RECURSIVE SumBatch(_)
SumBatch(I) ==
    IF I = {} THEN 0
    ELSE LET i == CHOOSE j \in I : TRUE
         IN cards[i].max_batch_size + SumBatch(I \ {i})
FellBack == \E i \in 1..Len(warnings) : warnings[i] = CouldNotSatisfyMsg
\* build_raw_schedule has returned (the loop is over, the locals still exist).
RawDone == pc \in {"finalize", "return"}

\* C1: the raw schedule build_raw_schedule returns has length exactly
\* min(N, S), N = number_of_meals and S = the sum of max_batch_size over the
\* stored cards that satisfy the filter, whatever the shuffle, the flags and
\* the fallbacks taken.
C1_RawLength ==
    RawDone =>
        Len(schedule) = Min(constraints.number_of_meals, SumBatch(Matching))

\* C1 witness: a finished raw schedule of full length in a run that fell back.
C1_Witness ==
    /\ pc = "finalize"
    /\ FellBack
    /\ Len(schedule) >= 2
    /\ Len(schedule) = constraints.number_of_meals
    /\ inventory # <<>>

\* C2: with max_repeats_per_plan = k > 0, no identifier appears more than k
\* times in the raw schedule unless the "Could not satisfy all constraints"
\* warning was emitted in the run.
C2_RepeatLimit ==
    (pc # "idle" /\ pc # "done" /\ constraints.max_repeats_per_plan > 0 /\ ~FellBack) =>
        \A id \in Ids(schedule) :
            IdCount(schedule, id) <= constraints.max_repeats_per_plan

\* C2 witness: a finished run without fallback in which a card with more
\* portions than the limit was scheduled and left portions in the inventory.
C2_Witness ==
    /\ pc = "finalize"
    /\ constraints.max_repeats_per_plan > 0
    /\ ~FellBack
    /\ Len(schedule) >= 2
    /\ \E id \in Ids(schedule) :
          /\ IdCount(schedule, id) = constraints.max_repeats_per_plan
          /\ IdCount(inventory, id) > 0

\* C3: with no_consecutive = true and no "Could not satisfy all constraints"
\* warning, every adjacent pair of the raw schedule has different identifiers.
C3_NoConsecutive ==
    (pc # "idle" /\ pc # "done" /\ constraints.no_consecutive /\ ~FellBack) =>
        \A i \in 1..(Len(schedule) - 1) : schedule[i].id # schedule[i + 1].id

\* C3 witness: a finished run without fallback whose schedule holds the same
\* card twice, apart.
C3_Witness ==
    /\ pc = "finalize"
    /\ constraints.no_consecutive
    /\ ~FellBack
    /\ Len(schedule) >= 3
    /\ schedule[1].id = schedule[3].id

\* The idea list as the caller receives it.
ReturnedIdeas == ret.plan[1]

\* C4: the idea list of a successful generate_plan has no two cards with the
\* same identifier and no card tagged "joker", and is never longer than the
\* raw schedule.
C4_IdeaList ==
    /\ pc = "return" =>
        /\ \A i, j \in 1..Len(final_ideas) :
              i # j => final_ideas[i].id # final_ideas[j].id
        /\ \A i \in 1..Len(final_ideas) : "joker" \notin final_ideas[i].tags
        /\ Len(final_ideas) <= Len(schedule)
    /\ (pc = "done" /\ ret.ok) =>
        /\ \A i, j \in 1..Len(ReturnedIdeas) :
              i # j => ReturnedIdeas[i].id # ReturnedIdeas[j].id
        /\ \A i \in 1..Len(ReturnedIdeas) : "joker" \notin ReturnedIdeas[i].tags

\* C4 witness: the raw schedule holds a joker and a repeated card, and the
\* idea list is not empty.
C4_Witness ==
    /\ pc = "return"
    /\ \E i \in 1..Len(schedule) : "joker" \in schedule[i].tags
    /\ \E i, j \in 1..Len(schedule) : i # j /\ schedule[i].id = schedule[j].id
    /\ final_ideas # <<>>

\* C5: generate_plan returns the NoCandidates error (no plan, no warnings)
\* exactly when no stored card satisfies the filter; when a card matches it
\* returns a GenerationResult, also when portions run out or the constraints
\* cannot be met.
C5_NoCandidates ==
    /\ pc = "done" =>
        /\ (Matching = {}) <=> (ret = Err(NoCandidatesMsg))
        /\ (Matching # {}) <=> (ret.ok /\ ret.plan # <<>> /\ ret.err = <<>>)
    /\ pc \in {"loop", "finalize", "return"} => Matching # {}

\* C5 witness: the error is returned although the store holds cards.
C5_Witness ==
    /\ pc = "done"
    /\ ret = Err(NoCandidatesMsg)
    /\ Len(cards) >= 2

\* The scenario of C6: the store holds the single card 1 "Tacos" (no tags,
\* max_batch_size 2) and the constraints ask for 3 meals with no_consecutive.
TacosCard == Card(1, Tacos, {}, {}, 2)
C6_Scenario ==
    /\ cards = <<TacosCard>>
    /\ constraints = [DefaultConstraints EXCEPT !.number_of_meals = 3,
                                                !.no_consecutive = TRUE]
    /\ pc = "done"

\* C6 (as amended): in the scenario generate_plan returns the idea list
\* [Card 1] with three warnings, in this order: the fallback warning, the
\* truncation warning "stopped at 2 meals", the jokers-and-duplicates note.
C6_ThreeWarnings ==
    C6_Scenario =>
        ret = OkPlan(<<TacosCard>>,
                     <<CouldNotSatisfyMsg, RanOutMsg(2), RemovedNoteMsg>>)

\* C6 witness: the scenario has run to its return.
C6_Witness == C6_Scenario /\ ret.ok /\ Len(ret.warnings) = 3

\* C6 as stated: the idea list [Card 1] with two warnings.
C6_TwoWarnings ==
    C6_Scenario => (ret.ok /\ ret.plan = <<<<TacosCard>>>> /\ Len(ret.warnings) = 2)

\* C7: no identifier appears in the raw schedule more often than its card's
\* max_batch_size, whatever N, max_repeats_per_plan and the fallbacks taken.
C7_BatchLimit ==
    (pc # "idle" /\ pc # "done") =>
        \A id \in Ids(schedule) :
            \E i \in 1..Len(cards) :
                /\ cards[i].id = id
                /\ IdCount(schedule, id) <= cards[i].max_batch_size

\* C7 witness: after a fallback a card is scheduled as often as its batch
\* size allows, twice or more, and more meals were asked for.
C7_Witness ==
    /\ pc = "finalize"
    /\ FellBack
    /\ Len(schedule) < constraints.number_of_meals
    /\ \E i \in 1..Len(cards) :
          /\ cards[i].max_batch_size >= 2
          /\ IdCount(schedule, cards[i].id) = cards[i].max_batch_size

\* C8: update_card, get_card and remove_card with an identifier no stored
\* card carries return NotFound and leave the card list and next_id as they
\* were.
C8_NotFound ==
    [][ (/\ op'[1] \in {"update_card", "get_card", "remove_card"}
         /\ op'[2] \notin Ids(cards))
        => (/\ ret' = Err(NotFoundMsg(op'[2]))
            /\ cards' = cards
            /\ next_id' = next_id) ]_vars

\* C8 witness: update_card has returned NotFound on a store that holds cards.
C8_Witness ==
    /\ op[1] = "update_card"
    /\ ret = Err(NotFoundMsg(op[2]))
    /\ Len(cards) >= 1

\* C9: stored cards have pairwise distinct identifiers; add_card returns an
\* identifier greater than every identifier issued before, so a removed
\* card's identifier is not reused; update_card changes no identifier.
C9_Identifiers ==
    [][ /\ \A i, j \in 1..Len(cards') : i # j => cards'[i].id # cards'[j].id
        /\ op'[1] = "add_card" =>
              /\ \A id \in issued : ret'.card[1].id > id
              /\ \A id \in Ids(cards) : ret'.card[1].id > id
        /\ op'[1] = "update_card" =>
              /\ Len(cards') = Len(cards)
              /\ \A i \in 1..Len(cards) : cards'[i].id = cards[i].id ]_vars

\* C9 witness: add_card has returned identifier 2 while the store holds one
\* card: card 1 was removed before and its identifier was not given again.
C9_Witness ==
    /\ op[1] = "add_card"
    /\ ret.card[1].id = 2
    /\ Len(cards) = 1

\* C10: every stored card has max_batch_size >= 1, whatever max_batch_size
\* arguments add_card and update_card were given.
C10_PositiveBatch ==
    \A i \in 1..Len(cards) : cards[i].max_batch_size >= 1

\* The five predicates as the filter contract words them.
NameAdmits(card, f) ==
    \/ Len(f.name_contains) = 0
    \/ \E k \in 0..(Len(card.name) - Len(f.name_contains)) :
          \A i \in 1..Len(f.name_contains) :
              LowerChar(card.name[k + i]) = LowerChar(f.name_contains[i])
BatchAdmits(card, f) ==
    /\ f.batch_mode = "Only" => card.max_batch_size > 1
    /\ f.batch_mode = "Prevent" => card.max_batch_size <= 1
SetAdmits(wanted, mode, has) ==
    \/ wanted = {}
    \/ mode = "All" /\ \A x \in wanted : x \in has
    \/ mode = "Any" /\ \E x \in wanted : x \in has
JokerAdmits(card, f) == "joker" \in card.tags => f.allow_jokers
Admitted(card, f) ==
    /\ NameAdmits(card, f)
    /\ BatchAdmits(card, f)
    /\ SetAdmits(f.tag_filters, f.tag_mode, card.tags)
    /\ SetAdmits(f.ingredient_filters, f.ingredient_mode, card.ingredients)
    /\ JokerAdmits(card, f)
Found == op = <<"find_candidates">>

\* C11: find_candidates returns exactly the stored cards, in store order, that
\* satisfy the name, batch, tag, ingredient and joker predicates at once: an
\* empty filter set is vacuous, ALL asks for a subset, ANY for a common
\* element, Only for max_batch_size > 1, Prevent for max_batch_size <= 1, and
\* a card tagged "joker" passes only with allow_jokers.
C11_Candidates ==
    Found =>
        candidates = SelectSeq(cards, LAMBDA card : Admitted(card, constraints.filters))

\* C11 witness: of two stored cards exactly one is returned, under a filter
\* with a tag set in ANY mode of which the kept card has only a part.
C11_Witness ==
    /\ Found
    /\ Len(cards) = 2
    /\ Len(candidates) = 1
    /\ constraints.filters.tag_mode = "Any"
    /\ constraints.filters.tag_filters = {"joker", "vegan"}
    /\ ~(constraints.filters.tag_filters \subseteq candidates[1].tags)

\* C12: with an empty tag set, an empty ingredient set, an empty name
\* substring, allow_jokers = true and batch mode Allow, find_candidates
\* returns the full card collection, jokers and every batch size included.
C12_FullCollection ==
    (/\ Found
     /\ constraints.filters.name_contains = <<>>
     /\ constraints.filters.tag_filters = {}
     /\ constraints.filters.ingredient_filters = {}
     /\ constraints.filters.allow_jokers
     /\ constraints.filters.batch_mode = "Allow")
        => candidates = cards

\* C12 witness: the full collection is returned for a store that holds a
\* joker and a card with max_batch_size 0.
C12_Witness ==
    /\ Found
    /\ constraints.filters = [DefaultFilters EXCEPT !.allow_jokers = TRUE,
                                                    !.tag_mode = "All"]
    /\ candidates = cards
    /\ \E i \in 1..Len(cards) : "joker" \in cards[i].tags
    /\ \E i \in 1..Len(cards) : cards[i].max_batch_size = 0

\* The loop of build_raw_schedule is about to run its first iteration.
AtLoopStart == pc = "loop" /\ schedule = <<>>

\* C13: the inventory built at the start of build_raw_schedule holds exactly b
\* entries for every candidate card with max batch size b and no entry for a
\* card that is not a candidate, whatever order the shuffle produced.
C13_InventoryCounts ==
    AtLoopStart =>
        /\ \A i \in 1..Len(cards) :
              IdCount(inventory, cards[i].id) =
                  IF i \in Matching THEN cards[i].max_batch_size ELSE 0
        /\ \A j \in 1..Len(inventory) : \E i \in Matching : inventory[j] = cards[i]

\* C13 witness: a shuffled inventory that is not in candidate order, the
\* copies of a batch card apart from each other.
C13_Witness ==
    /\ AtLoopStart
    /\ Len(inventory) >= 3
    /\ inventory[1].id > inventory[2].id
    /\ inventory[1].id = inventory[3].id

\* C14: the loop of build_raw_schedule terminates; an iteration that does not
\* stop the loop removes exactly one entry from the inventory and appends
\* exactly one to the schedule, so there are at most min(N, initial inventory
\* size) appending iterations.
C14_Terminates ==
    /\ [][ (pc = "loop" /\ pc' = "loop") =>
              /\ Len(inventory') = Len(inventory) - 1
              /\ Len(schedule') = Len(schedule) + 1 ]_vars
    /\ [](pc = "loop" =>
              /\ Len(schedule) + Len(inventory) = SumBatch(Matching)
              /\ Len(schedule) <= Min(constraints.number_of_meals, SumBatch(Matching)))
    /\ (pc = "loop") ~> (pc = "finalize")

\* C14 witness: the loop has ended after three iterations, one of them a
\* fallback, with entries left in the inventory.
C14_Witness ==
    /\ pc = "finalize"
    /\ Len(schedule) = 3
    /\ FellBack
    /\ inventory # <<>>

\* C15: a successful update_card(id, ..) changes only the fields whose
\* argument was supplied, on the card with that identifier only: that card's
\* identifier and its fields with an omitted argument, every other card, the
\* order of the list and next_id stay as they were.
C15_UpdateFrame ==
    [][ (op'[1] = "update_card" /\ ret'.ok) =>
          /\ next_id' = next_id
          /\ Len(cards') = Len(cards)
          /\ \A i \in 1..Len(cards) :
                IF cards[i].id # op'[2]
                THEN cards'[i] = cards[i]
                ELSE /\ cards'[i].id = cards[i].id
                     /\ op'[3] = <<>> => cards'[i].name = cards[i].name
                     /\ op'[4] = <<>> => cards'[i].tags = cards[i].tags
                     /\ op'[5] = <<>> => cards'[i].ingredients = cards[i].ingredients
                     /\ op'[6] = <<>> =>
                           cards'[i].max_batch_size = cards[i].max_batch_size
                     /\ op'[3] # <<>> => cards'[i].name = op'[3][1]
                     /\ op'[4] # <<>> => cards'[i].tags = op'[4][1]
                     /\ op'[5] # <<>> => cards'[i].ingredients = op'[5][1]
                     /\ op'[6] # <<>> => cards'[i].max_batch_size = op'[6][1] ]_vars

\* C15 witness: an update that supplied only max_batch_size has returned the
\* second of two cards with its earlier name, tags and ingredients.
C15_Witness ==
    /\ op[1] = "update_card"
    /\ ret.ok
    /\ op[2] = 2
    /\ Len(cards) = 2
    /\ op[3] = <<>> /\ op[4] = <<>> /\ op[5] = <<>> /\ op[6] # <<>>
    /\ ret.card[1].name = Soup
    /\ ret.card[1].tags = {"joker"}
    /\ ret.card[1].ingredients = {"rice"}
    /\ cards[1].max_batch_size # ret.card[1].max_batch_size

\* Appending card after the entries of sched would repeat the last entry
\* (with no_consecutive) or exceed the repeat limit (when it is not 0).
Violates(sched, card) ==
    \/ /\ constraints.no_consecutive
       /\ Len(sched) > 0
       /\ sched[Len(sched)].id = card.id
    \/ /\ constraints.max_repeats_per_plan > 0
       /\ IdCount(sched, card.id) >= constraints.max_repeats_per_plan
\* The entries of the schedule that violated a constraint when appended.
ViolatingEntries ==
    {i \in 1..Len(schedule) : Violates(SubSeq(schedule, 1, i - 1), schedule[i])}
FallbackWarnings == {i \in 1..Len(warnings) : warnings[i] = CouldNotSatisfyMsg}
Admissible == {j \in 1..Len(inventory) : ~Violates(schedule, inventory[j])}

\* C16: an iteration appends the first entry of the current inventory order
\* that violates no constraint; only when every remaining entry violates one
\* does it warn and take the entry at position 0.  So the number of "Could not
\* satisfy all constraints" warnings equals the number of schedule entries
\* that violated a constraint when they were appended.
C16_FirstAdmissible ==
    /\ [][ (pc = "loop" /\ schedule' # schedule) =>
              IF Admissible # {}
              THEN LET m == CHOOSE j \in Admissible : \A l \in Admissible : j <= l
                   IN /\ schedule' = Append(schedule, inventory[m])
                      /\ inventory' = RemoveAt(inventory, m)
                      /\ warnings' = warnings
              ELSE /\ schedule' = Append(schedule, inventory[1])
                   /\ inventory' = RemoveAt(inventory, 1)
                   /\ warnings' = Append(warnings, CouldNotSatisfyMsg) ]_vars
    /\ [](pc \in {"loop", "finalize", "return"} =>
              Cardinality(FallbackWarnings) = Cardinality(ViolatingEntries))

\* C16 witness: in the middle of a run the entry at position 0 violates a
\* constraint and a later entry does not, so the scan passes over position 0.
C16_Witness ==
    /\ pc = "loop"
    /\ schedule # <<>>
    /\ Len(schedule) < constraints.number_of_meals
    /\ inventory # <<>>
    /\ 1 \notin Admissible
    /\ Admissible # {}

RanOutWarnings == {i \in 1..Len(warnings) : warnings[i].text = RanOutMsg(0).text}

\* C17: the "Ran out of meal portions" warning is emitted exactly when the
\* expanded inventory holds fewer than N entries; then once, after every
\* fallback warning, and with the final length of the raw schedule.  With N
\* or more entries (N = 0 included) it is not emitted.
C17_Truncation ==
    /\ pc = "loop" => RanOutWarnings = {}
    /\ pc = "finalize" =>
          /\ (SumBatch(Matching) < constraints.number_of_meals) <=> (RanOutWarnings # {})
          /\ Cardinality(RanOutWarnings) <= 1
          /\ \A i \in RanOutWarnings :
                /\ warnings[i] = RanOutMsg(Len(schedule))
                /\ i = Len(warnings)
                /\ \A j \in FallbackWarnings : j < i

\* C17 witness: the truncation warning follows a fallback warning and reports
\* a schedule that is not empty.
C17_Witness ==
    /\ pc = "finalize"
    /\ FallbackWarnings # {}
    /\ RanOutWarnings = {Len(warnings)}
    /\ Len(schedule) >= 2
    /\ Len(cards) = 2

NotesIn(w) == {i \in 1..Len(w) : w[i] = RemovedNoteMsg}

\* C18: the "Jokers and duplicates have been removed" note is among the
\* result's warnings exactly when the idea list is shorter than the raw
\* schedule; it appears at most once and is the last warning, after every
\* fallback and truncation warning.
C18_Note ==
    /\ pc \in {"loop", "finalize"} => NotesIn(warnings) = {}
    /\ pc = "return" =>
          /\ (Len(final_ideas) < Len(schedule)) <=> (NotesIn(warnings) # {})
          /\ NotesIn(warnings) \subseteq {Len(warnings)}
    /\ (pc = "done" /\ ret.ok) =>
          NotesIn(ret.warnings) \subseteq {Len(ret.warnings)}

\* C18 witness: the note is the third warning, after a fallback and a
\* truncation warning.
C18_Witness ==
    /\ pc = "return"
    /\ Len(warnings) = 3
    /\ NotesIn(warnings) = {3}
    /\ FallbackWarnings = {1}
    /\ RanOutWarnings = {2}

\* Positions of the raw schedule that hold a first occurrence of a card not
\* tagged "joker".
FirstNonJokers ==
    {i \in 1..Len(schedule) :
        /\ "joker" \notin schedule[i].tags
        /\ \A j \in 1..(i - 1) : schedule[j].id # schedule[i].id}
\* The n-th of them in schedule order.
NthKept(n) ==
    CHOOSE i \in FirstNonJokers : Cardinality({j \in FirstNonJokers : j <= i}) = n

\* C19: the idea list is the raw schedule with the joker entries and every
\* non-first occurrence of an identifier deleted: a subsequence in the same
\* order that holds each non-joker identifier of the raw schedule once, in
\* the order of the first occurrences.
C19_IdeasAreFiltered ==
    pc = "return" =>
        /\ Len(final_ideas) = Cardinality(FirstNonJokers)
        /\ \A n \in 1..Len(final_ideas) : final_ideas[n] = schedule[NthKept(n)]
        /\ \A i \in 1..Len(schedule) :
              "joker" \notin schedule[i].tags =>
                  IdCount(final_ideas, schedule[i].id) = 1

\* C19 witness: the raw schedule holds a card, then another, then the first
\* again; the idea list holds the two cards in that order.
C19_Witness ==
    /\ pc = "return"
    /\ Len(schedule) = 3
    /\ schedule[1].id = schedule[3].id
    /\ Len(final_ideas) = 2
    /\ final_ideas[1].id > final_ideas[2].id

IsPrefix(s, t) == Len(s) <= Len(t) /\ SubSeq(t, 1, Len(s)) = s

\* C20: at every iteration of the scheduling loop, for each identifier, the
\* entries still in the inventory plus the entries in the schedule number as
\* many as the initial expanded inventory held, plan_counts holds the number
\* of its occurrences in the schedule, and the schedule and the warning list
\* only grow at the end.
C20_LoopInvariant ==
    /\ [](pc \in {"loop", "finalize"} =>
            /\ \A i \in 1..Len(cards) :
                  /\ IdCount(inventory, cards[i].id) + IdCount(schedule, cards[i].id)
                        = IF i \in Matching THEN cards[i].max_batch_size ELSE 0
                  /\ IF cards[i].id \in DOMAIN plan_counts
                     THEN plan_counts[cards[i].id] = IdCount(schedule, cards[i].id)
                     ELSE IdCount(schedule, cards[i].id) = 0
            /\ DOMAIN plan_counts \subseteq Ids(cards))
    /\ [][ (pc = "loop" \/ pc = "finalize") =>
              /\ IsPrefix(schedule, schedule')
              /\ IsPrefix(warnings, warnings') ]_vars

\* C20 witness: inside the loop, after a fallback, a card is in the schedule
\* twice and the inventory still holds entries.
C20_Witness ==
    /\ pc = "loop"
    /\ FellBack
    /\ inventory # <<>>
    /\ \E id \in DOMAIN plan_counts : plan_counts[id] = 2 /\ IdCount(schedule, id) = 2

====
